---- MODULE Spec2Model ----
\* Enrolment queue server (src/server/server.js): the in-memory station queues,
\* serving slots, hold sets, student records and audit log, and the REST
\* handlers that change them.  Express runs one handler to completion before
\* the next one starts, so every handler is one atomic action.  A handler is
\* written as an operator that gives, for the current state and the request,
\* the state it leaves, its reply and the socket events it emits; the action
\* of the handler installs that state.
\*
\* Left out of the state: timestamps (ts, createdAt) and the staff identity,
\* which the handlers only copy into records, and the optional check-in fields
\* studentId and email.
EXTENDS Integers, Sequences, FiniteSets, TLC

VARIABLES students, queues, currentServing, holds, auditLogs, seq, lastState

vars == <<students, queues, currentServing, holds, auditLogs, seq, lastState>>

----------------------------------------------------------------------------
\* Bounds of the explored workloads.

\* Front-desk workload (Spec): every call with every input.
MaxTickets == 2
MaxLog == 6
MaxExtras == 1

\* Walk-through workload (SpecWalk): tickets are walked down the whole pipeline.
WalkTickets == 1
WalkSides == 1

\* Flow workload (SpecFlow): check-ins, start-next and complete only.
FlowTickets == 2

----------------------------------------------------------------------------
\* JavaScript values.

\* null in a position that otherwise holds a ticket or a station key.
Null == "null"
\* A body field that is absent from the request.
Undefined == "undefined"
\* Text is a sequence of characters; these two stand for an absent text and
\* for null in a position that otherwise holds text.
UndefinedText == <<"undefined">>
NullText == <<"null">>

\* Mutant: undefined is taken for a value.
FalsyButUndefined(v) == v \in {"", Null}

\* !v for a ticket, station key, name or program.
Falsy(v) == v \in {"", Null, Undefined}

\* v || null
OrNull(v) == IF Falsy(v) THEN Null ELSE v

\* String.prototype.trim on a text.
RECURSIVE TrimLeft(_)
TrimLeft(t) == IF t # <<>> /\ Head(t) = " " THEN TrimLeft(Tail(t)) ELSE t

RECURSIVE TrimRight(_)
TrimRight(t) ==
    IF t # <<>> /\ t[Len(t)] = " " THEN TrimRight(SubSeq(t, 1, Len(t) - 1)) ELSE t

trim(t) == TrimRight(TrimLeft(t))

\* Mutant: the text is not trimmed before it is tested.
HasTextUntrimmed(t) == t # UndefinedText /\ t # NullText /\ t # <<>>

\* note?.trim() is truthy / text && text.trim() is truthy
HasText(t) == t # UndefinedText /\ t # NullText /\ trim(t) # <<>>

----------------------------------------------------------------------------
\* The station pipeline.

steps == <<
    [key |-> "registration",       prefix |-> "A", page |-> "registration.html"],
    [key |-> "marketing",          prefix |-> "A", page |-> "marketing.html"],
    [key |-> "class_registration", prefix |-> "A", page |-> "timetable.html"],
    [key |-> "tuition_payment",    prefix |-> "A", page |-> "fees.html"],
    [key |-> "student_id",         prefix |-> "A", page |-> "idcard.html"] >>

StepKeys == {steps[i].key : i \in 1..Len(steps)}

\* A station key no station has.
UnknownStep == "lobby"
StepInputs == StepKeys \cup {UnknownStep}

\* Position of a station in the pipeline (1-based; 0-based in the source).
stepIndexByKey == [k \in StepKeys |-> CHOOSE i \in 1..Len(steps) : steps[i].key = k]

\* Mutant: the station after the next one is taken.
nextStepKeySkip(key) ==
    IF key \notin StepKeys THEN Null
    ELSE IF stepIndexByKey[key] + 2 <= Len(steps)
         THEN steps[stepIndexByKey[key] + 2].key
         ELSE Null

\* Mutant: after the last station the pipeline starts over.
nextStepKeyWrap(key) ==
    IF key \notin StepKeys THEN Null
    ELSE steps[(stepIndexByKey[key] % Len(steps)) + 1].key

nextStepKey(key) ==
    IF key \notin StepKeys THEN Null
    ELSE IF stepIndexByKey[key] + 1 <= Len(steps)
         THEN steps[stepIndexByKey[key] + 1].key
         ELSE Null

stepPageByKey == [k \in StepKeys |-> steps[stepIndexByKey[k]].page]

\* Map.prototype.get: undefined for a key the map does not have.
MapGet(m, k) == IF k \in DOMAIN m THEN m[k] ELSE Undefined

\* Map.prototype.set
MapSet(m, k, v) == [x \in DOMAIN m \cup {k} |-> IF x = k THEN v ELSE m[x]]

----------------------------------------------------------------------------
\* Ticket ids.

SeqStart == 1000

\* Mutant: the counter is read but never advanced past its first value.
NextSeqStuck(s) == SeqStart + 1

NextSeq(s) == s + 1

\* `${p}${++seq}`
makeTicketId(p, s) == p \o ToString(NextSeq(s))

\* A ticket id that is never allocated within the bounds.
UnknownTicket == "A9999"

----------------------------------------------------------------------------
\* Array helpers.

\* Mutant: the ticket is put at the head (unshift).
pushFront(q, t) == <<t>> \o q

\* Mutant: the ticket is not enqueued.
pushLost(q, t) == q

push(q, t) == Append(q, t)

\* Mutant: the head is read but left in the array.
shiftKeep(q) == [ticket |-> Head(q), rest |-> q]

\* Mutant: the last element is taken (pop).
shiftLast(q) == [ticket |-> q[Len(q)], rest |-> SubSeq(q, 1, Len(q) - 1)]

\* Array.prototype.shift on a non-empty array: the element and what is left.
shift(q) == [ticket |-> Head(q), rest |-> Tail(q)]

SeqToSet(q) == {q[i] : i \in 1..Len(q)}

----------------------------------------------------------------------------
\* Set.prototype.add
SetAdd(set, t) == set \cup {t}

\* Mutant: the ticket is left in the set.
SetDeleteNothing(set, t) == set

\* Set.prototype.delete
SetDelete(set, t) == set \ {t}

----------------------------------------------------------------------------
\* Audit log and socket events.

\* Mutant: the entry is not recorded.
logEventDrop(log, entry) == log

logEvent(log, entry) ==
    Append(log, [event   |-> entry.event,
                 stepKey |-> OrNull(entry.stepKey),
                 ticket  |-> OrNull(entry.ticket),
                 note    |-> IF entry.note = <<>> \/ entry.note = UndefinedText
                             THEN NullText ELSE entry.note,
                 meta    |-> entry.meta])

\* publicState() over given maps (the constant list of stations is left out).
publicStateOf(qs, cs, hs) ==
    [queues         |-> qs,
     currentServing |-> cs,
     holdsCount     |-> [k \in DOMAIN hs |-> Cardinality(hs[k])]]

publicState == publicStateOf(queues, currentServing, holds)

\* Socket events.  An event goes to every listener (io.emit) or to one socket
\* (socket.emit), and its payload is built from the maps as they are when the
\* emit is called.

\* Mutant: the snapshot is taken from the maps as they were before the handler.
emitStateBefore(qs, cs, hs) ==
    <<[event |-> "state:update", to |-> "all", payload |-> publicState]>>

\* emitState() over given maps.
emitState(qs, cs, hs) ==
    <<[event |-> "state:update", to |-> "all", payload |-> publicStateOf(qs, cs, hs)]>>

\* emitStudent(ticket) over a given students map: nothing for an unknown ticket.
emitStudent(sts, ticket) ==
    IF ticket \in DOMAIN sts
    THEN <<[event |-> "student:update", to |-> "all", payload |-> sts[ticket]]>>
    ELSE <<>>

\* snapshotStudent copies the primitive fields; history, notes and forms of the
\* snapshot are the student's own arrays and object, not copies.
snapshotStudent(student) ==
    [ticket  |-> student.ticket,
     name    |-> student.name,
     program |-> student.program,
     stepKey |-> student.stepKey,
     status  |-> student.status,
     forms   |-> student.forms,
     history |-> student.history,
     notes   |-> student.notes]

\* Mutant: history, notes and forms of a snapshot are copies, which later
\* changes of the student do not reach.
Copied(log, sts) == log

\* The log as it reads once the students have the given records: history,
\* notes and forms in the snapshot of a "finalize" entry are the arrays and the
\* object of the student itself, so they read as the student's do.
Aliased(log, sts) ==
    [i \in 1..Len(log) |->
        IF log[i].event = "finalize" /\ log[i].ticket \in DOMAIN sts
        THEN [log[i] EXCEPT !.meta =
                 [@ EXCEPT !.forms = sts[log[i].ticket].forms,
                           !.history = sts[log[i].ticket].history,
                           !.notes = sts[log[i].ticket].notes]]
        ELSE log[i]]

Reply(status, body) == [status |-> status, body |-> body]

\* What a handler leaves behind: the maps, the log (read with the records the
\* handler leaves), the counter, its reply and the events it emitted.
Done(sts, qs, cs, hs, log, sq, reply, events) ==
    [students |-> sts, queues |-> qs, currentServing |-> cs, holds |-> hs,
     auditLogs |-> Aliased(log, sts), seq |-> sq, res |-> reply, emitted |-> events]

\* A handler that returns early: a reply, and nothing else happens.
Rejected(status, body) ==
    Done(students, queues, currentServing, holds, auditLogs, seq,
         Reply(status, body), <<>>)

----------------------------------------------------------------------------
Init ==
    /\ students = <<>>
    /\ queues = [k \in StepKeys |-> <<>>]
    /\ currentServing = [k \in StepKeys |-> Null]
    /\ holds = [k \in StepKeys |-> {}]
    /\ auditLogs = <<>>
    /\ seq = SeqStart
    /\ lastState = publicStateOf([k \in StepKeys |-> <<>>],
                                 [k \in StepKeys |-> Null],
                                 [k \in StepKeys |-> {}])

----------------------------------------------------------------------------
\* The snapshot listeners hold after the events of a handler: the payload of
\* the last state:update sent to all of them.
LastStateOf(events, old) ==
    LET sent == {i \in 1..Len(events) :
                    events[i].event = "state:update" /\ events[i].to = "all"}
    IN  IF sent = {} THEN old
        ELSE events[CHOOSE i \in sent : \A j \in sent : j <= i].payload

\* The step of a handler: the state it leaves is installed, and listeners
\* hold the snapshot of its state:update if it emitted one.
Handled(out) ==
    /\ students' = out.students
    /\ queues' = out.queues
    /\ currentServing' = out.currentServing
    /\ holds' = out.holds
    /\ auditLogs' = out.auditLogs
    /\ seq' = out.seq
    /\ lastState' = LastStateOf(out.emitted, lastState)

\* Mutant: the snapshot is not broadcast.
EmitStudentOnly(sts, qs, cs, hs, ticket) == emitStudent(sts, ticket)

\* emitState(); emitStudent(ticket)
EmitBoth(sts, qs, cs, hs, ticket) == emitState(qs, cs, hs) \o emitStudent(sts, ticket)

HistoryPush(student, entry) ==
    [student EXCEPT !.history = Append(@, entry)]

----------------------------------------------------------------------------
\* Mutant: only the name is required.
MissingName(name, program) == Falsy(name)

\* !name || !program
MissingRequired(name, program) == Falsy(name) \/ Falsy(program)

\* Mutant: the serving slot is not cleared.
KeepServing(cs, stepKey) == cs

\* currentServing.set(stepKey, null)
ClearServing(cs, stepKey) == [cs EXCEPT ![stepKey] = Null]

\* Mutant: the slot is not looked at.
NeverServing(stepKey) == FALSE

\* if (currentServing.get(stepKey)) in start-next
AlreadyServing(stepKey) == ~Falsy(currentServing[stepKey])

\* POST /api/checkin
CheckInHandler(name, program) ==
    IF MissingRequired(name, program)
    THEN Rejected(400, [error |-> "name and program are required"])
    ELSE
        LET reg == steps[1]
            ticket == makeTicketId(reg.prefix, seq)
            student == [ticket  |-> ticket,
                        name    |-> name,
                        program |-> program,
                        stepKey |-> reg.key,
                        status  |-> "queued",
                        history |-> <<[stepKey |-> reg.key, action |-> "checkin"]>>,
                        notes   |-> <<>>,
                        forms   |-> <<>>]
            sts == MapSet(students, ticket, student)
            qs  == [queues EXCEPT ![reg.key] = push(@, ticket)]
            log == logEvent(auditLogs,
                            [event |-> "checkin", stepKey |-> reg.key, ticket |-> ticket,
                             note |-> UndefinedText,
                             meta |-> [name |-> name, program |-> program]])
        IN  Done(sts, qs, currentServing, holds, log, NextSeq(seq),
                   Reply(200, [ticket |-> ticket, stepKey |-> reg.key]),
                   EmitBoth(sts, qs, currentServing, holds, ticket))

\* POST /api/department/:step/start-next
StartNextHandler(stepKey) ==
    IF stepKey \notin DOMAIN queues
    THEN Rejected(404, [error |-> "Unknown step"])
    ELSE IF AlreadyServing(stepKey)
    THEN Rejected(409, [error |-> "Already serving a student",
                      ticket |-> currentServing[stepKey]])
    ELSE IF queues[stepKey] = <<>>
    THEN \* q.shift() is undefined: the slot is set to null again and the
         \* unchanged state is broadcast
         LET cs == ClearServing(currentServing, stepKey)
         IN  Done(students, queues, cs, holds, auditLogs, seq,
                    Reply(200, [ticket |-> Null]),
                    emitState(queues, cs, holds))
    ELSE
        LET sh == shift(queues[stepKey])
            ticket == sh.ticket
            qs == [queues EXCEPT ![stepKey] = sh.rest]
            cs == [currentServing EXCEPT ![stepKey] = ticket]
            known == ticket \in DOMAIN students
            sts == IF known
                   THEN [students EXCEPT ![ticket] =
                            HistoryPush([@ EXCEPT !.status = "serving", !.stepKey = stepKey],
                                        [stepKey |-> stepKey, action |-> "start"])]
                   ELSE students
            log == IF known
                   THEN logEvent(auditLogs,
                                 [event |-> "start", stepKey |-> stepKey, ticket |-> ticket,
                                  note |-> UndefinedText, meta |-> Null])
                   ELSE auditLogs
        IN  Done(sts, qs, cs, holds, log, seq,
                   Reply(200, [ticket |-> ticket]),
                   EmitBoth(sts, qs, cs, holds, ticket))

\* POST /api/department/:step/complete
CompleteHandler(stepKey, note) ==
    LET serving == MapGet(currentServing, stepKey) IN
    IF Falsy(serving)
    THEN Rejected(409, [error |-> "No student currently serving"])
    ELSE IF serving \notin DOMAIN students
    THEN Rejected(404, [error |-> "Student not found"])
    ELSE
        LET text == IF HasText(note) THEN trim(note) ELSE NullText
            nxt == nextStepKey(stepKey)
            s1 == HistoryPush(students[serving],
                              [stepKey |-> stepKey, action |-> "complete", note |-> text])
            s2 == IF HasText(note)
                  THEN [s1 EXCEPT !.notes = Append(@, [stepKey |-> stepKey, text |-> trim(note)])]
                  ELSE s1
            log1 == logEvent(auditLogs,
                             [event |-> "complete", stepKey |-> stepKey, ticket |-> serving,
                              note |-> text, meta |-> [next |-> nxt]])
            cs == ClearServing(currentServing, stepKey)
            s3 == IF ~Falsy(nxt)
                  THEN [s2 EXCEPT !.stepKey = nxt, !.status = "queued"]
                  ELSE [s2 EXCEPT !.status = "complete"]
            qs == IF ~Falsy(nxt)
                  THEN [queues EXCEPT ![nxt] = push(@, serving)]
                  ELSE queues
            log2 == IF ~Falsy(nxt)
                    THEN log1
                    ELSE logEvent(log1,
                                  [event |-> "finalize", stepKey |-> stepKey,
                                   ticket |-> serving, note |-> UndefinedText,
                                   meta |-> snapshotStudent(s3)])
            sts == [students EXCEPT ![serving] = s3]
        IN  Done(sts, qs, cs, holds, log2, seq,
                   Reply(200, [ok |-> TRUE, nextStep |-> OrNull(nxt),
                               nextPage |-> IF ~Falsy(nxt) THEN stepPageByKey[nxt] ELSE Null]),
                   EmitBoth(sts, qs, cs, holds, serving))

\* POST /api/department/:step/hold
HoldHandler(stepKey) ==
    LET serving == MapGet(currentServing, stepKey) IN
    IF Falsy(serving)
    THEN Rejected(409, [error |-> "No student currently serving"])
    ELSE
        LET cs == ClearServing(currentServing, stepKey)
            known == serving \in DOMAIN students
            sts == IF known
                   THEN [students EXCEPT ![serving] =
                            HistoryPush([@ EXCEPT !.status = "hold"],
                                        [stepKey |-> stepKey, action |-> "hold"])]
                   ELSE students
            hs == IF known
                  THEN [holds EXCEPT ![stepKey] = SetAdd(@, serving)]
                  ELSE holds
            log == IF known
                   THEN logEvent(auditLogs,
                                 [event |-> "hold", stepKey |-> stepKey, ticket |-> serving,
                                  note |-> UndefinedText, meta |-> Null])
                   ELSE auditLogs
        IN  Done(sts, queues, cs, hs, log, seq,
                   Reply(200, [ok |-> TRUE]),
                   EmitBoth(sts, queues, cs, hs, serving))

\* POST /api/department/:step/return/:ticket
ReturnHandler(stepKey, ticket) ==
    IF stepKey \notin DOMAIN holds
    THEN \* holds.get(stepKey) is undefined and .has throws a TypeError:
         \* Express answers 500
         Rejected(500, [error |-> "TypeError"])
    ELSE IF ticket \notin holds[stepKey]
    THEN Rejected(404, [error |-> "Ticket not on hold at this step"])
    ELSE
        LET hs == [holds EXCEPT ![stepKey] = SetDelete(@, ticket)]
            qs == [queues EXCEPT ![stepKey] = push(@, ticket)]
            known == ticket \in DOMAIN students
            sts == IF known
                   THEN [students EXCEPT ![ticket] =
                            HistoryPush([@ EXCEPT !.status = "queued"],
                                        [stepKey |-> stepKey, action |-> "return"])]
                   ELSE students
            log == IF known
                   THEN logEvent(auditLogs,
                                 [event |-> "return", stepKey |-> stepKey, ticket |-> ticket,
                                  note |-> UndefinedText, meta |-> Null])
                   ELSE auditLogs
        IN  Done(sts, qs, currentServing, hs, log, seq,
                   Reply(200, [ok |-> TRUE]),
                   EmitBoth(sts, qs, currentServing, hs, ticket))

\* POST /api/department/:step/skip
SkipHandler(stepKey) ==
    LET serving == MapGet(currentServing, stepKey) IN
    IF Falsy(serving)
    THEN Rejected(409, [error |-> "No student currently serving"])
    ELSE
        LET cs == ClearServing(currentServing, stepKey)
            qs == [queues EXCEPT ![stepKey] = push(@, serving)]
            known == serving \in DOMAIN students
            sts == IF known
                   THEN [students EXCEPT ![serving] =
                            HistoryPush([@ EXCEPT !.status = "queued"],
                                        [stepKey |-> stepKey, action |-> "skip"])]
                   ELSE students
            log == IF known
                   THEN logEvent(auditLogs,
                                 [event |-> "skip", stepKey |-> stepKey, ticket |-> serving,
                                  note |-> UndefinedText, meta |-> Null])
                   ELSE auditLogs
        IN  Done(sts, qs, cs, holds, log, seq,
                   Reply(200, [ok |-> TRUE]),
                   EmitBoth(sts, qs, cs, holds, serving))

\* POST /api/department/:step/note
NoteHandler(stepKey, text, ticket) ==
    LET t == IF ~Falsy(ticket) THEN ticket ELSE MapGet(currentServing, stepKey) IN
    IF ~HasText(text)
    THEN Rejected(400, [error |-> "note text required"])
    ELSE IF Falsy(t)
    THEN Rejected(409, [error |-> "No ticket specified and none currently serving"])
    ELSE IF t \notin DOMAIN students
    THEN Rejected(404, [error |-> "Ticket not found"])
    ELSE
        LET noteEntry == [stepKey |-> stepKey, text |-> trim(text)]
            sts == [students EXCEPT ![t].notes = Append(@, noteEntry)]
            log == logEvent(auditLogs,
                            [event |-> "note_add", stepKey |-> stepKey, ticket |-> t,
                             note |-> noteEntry.text, meta |-> Null])
        IN  Done(sts, queues, currentServing, holds, log, seq,
                   Reply(200, [ok |-> TRUE, note |-> noteEntry]),
                   emitStudent(sts, t))

----------------------------------------------------------------------------
\* Per-station forms.  Of each schema the model keeps one field per kind of
\* normaliser the schema uses; the fields left out are normalised the same way.

Campuses == {"Sydney", "Newcastle"}

nullishToNull(v) == IF v = Undefined \/ v = "" THEN Null ELSE v

oneOf(v, list) == IF v = Undefined \/ v = Null \/ v = "" THEN Null
                  ELSE IF v \in list THEN v ELSE Null

FORM_SCHEMAS(stepKey, d) ==
    CASE stepKey = "registration" ->
            [fullName |-> nullishToNull(d.fullName), campus |-> oneOf(d.campus, Campuses)]
      [] stepKey = "student_id" ->
            [campus |-> oneOf(d.campus, Campuses), comments |-> nullishToNull(d.comments)]
      [] OTHER ->
            [comments |-> nullishToNull(d.comments)]

\* { ...old, ...incoming }
Merge(old, incoming) ==
    [f \in DOMAIN old \cup DOMAIN incoming |->
        IF f \in DOMAIN incoming THEN incoming[f] ELSE old[f]]

\* POST /api/department/:step/form.  Of the fields mirrored onto the record
\* for the first station the model keeps the name.
FormHandler(stepKey, ticket, data) ==
    LET t == IF ~Falsy(ticket) THEN ticket ELSE MapGet(currentServing, stepKey) IN
    IF Falsy(t)
    THEN Rejected(409, [error |-> "No ticket specified and none currently serving"])
    ELSE IF t \notin DOMAIN students
    THEN Rejected(404, [error |-> "Ticket not found"])
    ELSE IF stepKey \notin StepKeys
    THEN Rejected(404, [error |-> "Unknown step"])
    ELSE
        LET student == students[t]
            incoming == FORM_SCHEMAS(stepKey, data)
            old == IF stepKey \in DOMAIN student.forms THEN student.forms[stepKey] ELSE <<>>
            form == Merge(old, incoming)
            s1 == [student EXCEPT !.forms = MapSet(@, stepKey, form)]
            s2 == IF stepKey = "registration" /\ ~Falsy(incoming.fullName)
                  THEN [s1 EXCEPT !.name = incoming.fullName]
                  ELSE s1
            s3 == HistoryPush(s2, [stepKey |-> stepKey, action |-> "form_save"])
            sts == [students EXCEPT ![t] = s3]
            log == logEvent(auditLogs,
                            [event |-> "form_save", stepKey |-> stepKey, ticket |-> t,
                             note |-> UndefinedText, meta |-> [keys |-> DOMAIN incoming]])
        IN  Done(sts, queues, currentServing, holds, log, seq,
                   Reply(200, [ok |-> TRUE, form |-> form]),
                   emitStudent(sts, t))

----------------------------------------------------------------------------
\* The actions: one request, handled.

CheckIn(name, program) == Handled(CheckInHandler(name, program))
StartNext(stepKey) == Handled(StartNextHandler(stepKey))
Complete(stepKey, note) == Handled(CompleteHandler(stepKey, note))
Hold(stepKey) == Handled(HoldHandler(stepKey))
Return(stepKey, ticket) == Handled(ReturnHandler(stepKey, ticket))
Skip(stepKey) == Handled(SkipHandler(stepKey))
Note(stepKey, text, ticket) == Handled(NoteHandler(stepKey, text, ticket))
Form(stepKey, ticket, data) == Handled(FormHandler(stepKey, ticket, data))

\* io.on("connection"): the new socket alone is sent the current snapshot.
OnConnection ==
    Done(students, queues, currentServing, holds, auditLogs, seq, Null,
         <<[event |-> "state:update", to |-> "socket", payload |-> publicState]>>)

Connection == Handled(OnConnection)

----------------------------------------------------------------------------
\* Request inputs.

NameInputs == {Undefined, "", "Jane"}
ProgramInputs == {Undefined, "", "BA"}
TextInputs == {<<>>, <<" ">>, <<" ", "x", " ">>}
CompleteNotes == {UndefinedText, <<" ">>, <<" ", "x", " ">>}
\* Stations named in notes and form saves at the front desk.
DeskSteps == {steps[1].key, UnknownStep}
LastStep == steps[Len(steps)].key
TicketInputs == DOMAIN students \cup {UnknownTicket}
OptTicketInputs == TicketInputs \cup {Undefined}
DataInputs == {[fullName |-> Undefined, campus |-> Undefined, comments |-> Undefined],
               [fullName |-> "Eve", campus |-> "Perth", comments |-> ""]}

\* The calls of the front desk.
DeskCall ==
    \/ \E name \in NameInputs, program \in ProgramInputs : CheckIn(name, program)
    \/ \E stepKey \in StepInputs : StartNext(stepKey)
    \/ \E stepKey \in StepInputs, note \in CompleteNotes : Complete(stepKey, note)
    \/ \E stepKey \in StepInputs : Hold(stepKey)
    \/ \E stepKey \in StepInputs, ticket \in TicketInputs : Return(stepKey, ticket)
    \/ \E stepKey \in StepInputs : Skip(stepKey)
    \/ \E stepKey \in DeskSteps, text \in TextInputs, ticket \in OptTicketInputs :
            Note(stepKey, text, ticket)
    \/ \E stepKey \in DeskSteps, ticket \in OptTicketInputs, data \in DataInputs :
            Form(stepKey, ticket, data)
    \/ Connection

\* Notes and form saves recorded in a log.
ExtrasOf(log) ==
    Cardinality({i \in 1..Len(log) :
        \/ log[i].event \in {"note_add", "form_save"}
        \/ log[i].event = "complete" /\ log[i].note # NullText})

\* Front-desk workload: every call with every input, until the bounds are used up.
Next ==
    /\ DeskCall
    /\ Len(auditLogs') <= MaxLog
    /\ seq' - SeqStart <= MaxTickets
    /\ ExtrasOf(auditLogs') <= MaxExtras

Spec == Init /\ [][Next]_vars

----------------------------------------------------------------------------
\* Walk-through workload: students are taken down the whole pipeline one
\* after the other (the next one checks in when nobody is waiting, served or
\* held), with a bounded number of side steps on the way and afterwards: a
\* hold, a skip, a note, a form save or a complete that carries a note.
\* Notes name the last station, forms the first or an unknown one.

WalkTexts == {<<>>, <<" ", "x", " ">>}
WalkCompleteNotes == {UndefinedText, <<" ", "x", " ">>}
WalkNoteSteps == {LastStep}
WalkData == {[fullName |-> "Eve", campus |-> "Sydney", comments |-> "ok"]}
WalkFormSteps == {steps[1].key, UnknownStep}

\* Nobody is waiting, served or held.
PipelineEmpty ==
    \A k \in StepKeys :
        queues[k] = <<>> /\ Falsy(currentServing[k]) /\ holds[k] = {}

WalkCall ==
    \/ \E name \in NameInputs, program \in ProgramInputs :
            /\ MissingRequired(name, program) \/ PipelineEmpty
            /\ CheckIn(name, program)
    \/ \E stepKey \in StepInputs : StartNext(stepKey)
    \/ \E stepKey \in StepInputs, note \in WalkCompleteNotes : Complete(stepKey, note)
    \/ \E stepKey \in StepInputs : Hold(stepKey)
    \/ \E stepKey \in StepInputs, ticket \in TicketInputs : Return(stepKey, ticket)
    \/ \E stepKey \in StepInputs : Skip(stepKey)
    \/ \E stepKey \in WalkNoteSteps, text \in WalkTexts, ticket \in OptTicketInputs :
            Note(stepKey, text, ticket)
    \/ \E stepKey \in WalkFormSteps, ticket \in OptTicketInputs, data \in WalkData :
            Form(stepKey, ticket, data)
    \/ Connection

\* Side steps recorded in a log.
SidesOf(log) ==
    ExtrasOf(log) + Cardinality({i \in 1..Len(log) : log[i].event \in {"hold", "skip"}})

\* Tickets issued after the first one.
LaterTickets(n) == IF n - SeqStart > 1 THEN n - SeqStart - 1 ELSE 0

\* Each ticket after the first takes one side step out of the walk's budget.
NextWalk ==
    /\ WalkCall
    /\ seq' - SeqStart <= WalkTickets
    /\ SidesOf(auditLogs') + LaterTickets(seq') <= WalkSides

SpecWalk == Init /\ [][NextWalk]_vars

----------------------------------------------------------------------------
\* Flow workload: a bounded number of students check in, each once everybody
\* before is at the last station or through it, and start-next and complete
\* are called at every station, with no hold and no skip.  A student can catch
\* up with the one before at the last station and wait behind it.  No desk
\* keeps a request that it can make from being made: start-next and complete
\* of every station are weakly fair.

FlowNames == {"", "Jane"}
FlowPrograms == {"BA"}

\* Everybody on record is at the last station or complete.
AllAtLastStep ==
    \A t \in DOMAIN students :
        students[t].status = "complete" \/ students[t].stepKey = LastStep

FlowCheckIn ==
    \E name \in FlowNames, program \in FlowPrograms :
        /\ MissingRequired(name, program) \/ AllAtLastStep
        /\ CheckIn(name, program)
        /\ seq' - SeqStart <= FlowTickets

FlowStartNext(stepKey) == StartNext(stepKey)

FlowComplete(stepKey) == Complete(stepKey, UndefinedText)

NextFlow ==
    \/ FlowCheckIn
    \/ \E stepKey \in StepInputs : FlowStartNext(stepKey)
    \/ \E stepKey \in StepInputs : FlowComplete(stepKey)
    \/ Connection

FlowFairness ==
    \A stepKey \in StepKeys :
        /\ WF_vars(FlowStartNext(stepKey))
        /\ WF_vars(FlowComplete(stepKey))

SpecFlow == Init /\ [][NextFlow]_vars /\ FlowFairness

----------------------------------------------------------------------------
\* Vocabulary of the properties.

\* Every place a ticket occupies: a position of a waiting queue, a serving
\* slot or a hold set.
PlacesOf(t) ==
    UNION {{<<k, "queue", i>> : i \in {j \in 1..Len(queues[k]) : queues[k][j] = t}} :
           k \in StepKeys}
    \cup {<<k, "serving", 0>> : k \in {j \in StepKeys : currentServing[j] = t}}
    \cup {<<k, "hold", 0>> : k \in {j \in StepKeys : t \in holds[j]}}

\* Every ticket that is anywhere.
TicketsInPlay ==
    UNION {SeqToSet(queues[k]) : k \in StepKeys}
    \cup {currentServing[k] : k \in {j \in StepKeys : ~Falsy(currentServing[j])}}
    \cup UNION {holds[k] : k \in StepKeys}

Waiting(t, k) == k \in StepKeys /\ t \in SeqToSet(queues[k])
Served(t, k) == k \in StepKeys /\ currentServing[k] = t
Held(t, k) == k \in StepKeys /\ t \in holds[k]
Nowhere(t) == \A k \in StepKeys : ~Waiting(t, k) /\ ~Served(t, k) /\ ~Held(t, k)

LastLog == auditLogs[Len(auditLogs)]

\* The handler left queues, serving slots, hold sets, student records and the
\* audit log as they were.
Untouched(out) ==
    /\ out.queues = queues
    /\ out.currentServing = currentServing
    /\ out.holds = holds
    /\ out.students = students
    /\ out.auditLogs = auditLogs

\* The handler added n entries to the audit log.
LogGrowsBy(out, n) == Len(out.auditLogs) = Len(auditLogs) + n

\* The i-th entry the handler added carries this event, station and ticket.
LoggedAt(out, i, event, k, t) ==
    LET e == out.auditLogs[Len(auditLogs) + i] IN
    e.event = event /\ e.stepKey = k /\ e.ticket = t

\* The ticket a note or form save is about.
Target(k, ticket) == IF ~Falsy(ticket) THEN ticket ELSE MapGet(currentServing, k)

----------------------------------------------------------------------------
\* C1: in every reachable state each ticket occupies at most one place among
\* all stations' waiting-queue positions, serving slots and hold sets.
C1_TicketInOnePlace ==
    \A t \in TicketsInPlay \cup DOMAIN students : Cardinality(PlacesOf(t)) <= 1

\* One ticket is held at a station while that station serves another one.
C1_Witness ==
    \E k \in StepKeys :
        /\ holds[k] # {}
        /\ ~Falsy(currentServing[k])
        /\ currentServing[k] \notin holds[k]
        /\ LastLog.event = "start"

\* C2: in every reachable state each student's status and stepKey agree with
\* where the ticket is: queued iff waiting at stepKey, serving iff served at
\* stepKey, hold iff held at stepKey, complete iff nowhere.
C2_StatusAgreesWithPlace ==
    \A t \in DOMAIN students :
        LET s == students[t] IN
        /\ s.status \in {"queued", "serving", "hold", "complete"}
        /\ s.status = "queued" <=> Waiting(t, s.stepKey)
        /\ s.status = "serving" <=> Served(t, s.stepKey)
        /\ s.status = "hold" <=> Held(t, s.stepKey)
        /\ s.status = "complete" <=> Nowhere(t)

\* A ticket that was held and returned on its way has completed the pipeline.
C2_Witness ==
    \E t \in DOMAIN students :
        /\ students[t].status = "complete"
        /\ \E i \in 1..Len(students[t].history) : students[t].history[i].action = "return"

\* C3: every waiting queue is first-in first-out.  A step changes a queue only
\* by appending one ticket at its tail or by removing its head, and a ticket
\* that enters a serving slot is the head that start-next removed from that
\* station's queue; so tickets are served in the order they were enqueued.
C3_QueueIsFifo ==
    [][\A k \in StepKeys :
          /\ \/ queues'[k] = queues[k]
             \/ \E t \in DOMAIN students' : queues'[k] = Append(queues[k], t)
             \/ /\ queues[k] # <<>>
                /\ queues'[k] = Tail(queues[k])
                /\ currentServing'[k] = Head(queues[k])
          /\ (currentServing'[k] # currentServing[k] /\ ~Falsy(currentServing'[k]))
                => /\ StartNext(k)
                   /\ queues[k] # <<>>
                   /\ currentServing'[k] = Head(queues[k])
                   /\ queues'[k] = Tail(queues[k])
      ]_vars

\* A1001 was skipped behind A1002, and start-next then served A1002 first.
C3_Witness ==
    /\ currentServing[steps[1].key] = "A1002"
    /\ queues[steps[1].key] = <<"A1001">>
    /\ LastLog.event = "start"

\* C4: complete at the last station marks the served student complete and
\* clears the serving slot, and a complete student stays complete and stays
\* out of every waiting queue, serving slot and hold set under every later call.
C4_CompleteIsFinal ==
    [][/\ \A note \in CompleteNotes, t \in DOMAIN students :
            (currentServing[LastStep] = t /\ Complete(LastStep, note))
            => /\ students'[t].status = "complete"
               /\ currentServing'[LastStep] = Null
               /\ Nowhere(t)'
       /\ \A t \in DOMAIN students :
            students[t].status = "complete"
            => /\ t \in DOMAIN students'
               /\ students'[t].status = "complete"
               /\ Nowhere(t)'
      ]_vars

\* A note was added for a ticket after it completed the pipeline.
C4_Witness ==
    \E t \in DOMAIN students :
        /\ students[t].status = "complete"
        /\ Nowhere(t)
        /\ LastLog.event = "note_add"
        /\ LastLog.ticket = t

\* C5: complete at a station that is not the last clears its serving slot,
\* moves the served student to the immediate successor with status queued,
\* appends the ticket once at the tail of the successor's waiting queue,
\* leaves every other queue alone and returns the successor as nextStep.
C5_CompleteAdvances ==
    \A i \in 1..(Len(steps) - 1), note \in CompleteNotes :
        LET k == steps[i].key
            n == steps[i + 1].key
            t == currentServing[k]
            out == CompleteHandler(k, note)
        IN  ~Falsy(t)
            => /\ out.currentServing[k] = Null
               /\ out.students[t].stepKey = n
               /\ out.students[t].status = "queued"
               /\ out.queues[n] = Append(queues[n], t)
               /\ Cardinality({j \in 1..Len(out.queues[n]) : out.queues[n][j] = t}) = 1
               /\ \A j \in StepKeys \ {n} : out.queues[j] = queues[j]
               /\ out.res.status = 200
               /\ out.res.body.nextStep = n

\* A1002 completed registration while A1001 was already waiting at marketing.
C5_Witness ==
    /\ queues[steps[2].key] = <<"A1001", "A1002">>
    /\ LastLog.event = "complete"
    /\ LastLog.ticket = "A1002"

\* C6: start-next on a station whose serving slot is occupied answers 409
\* with the ticket being served and changes no queue, serving slot, hold set,
\* student record or audit log entry, whether or not tickets are waiting.
C6_StartNextConflict ==
    \A k \in StepKeys :
        ~Falsy(currentServing[k])
        => LET out == StartNextHandler(k) IN
           /\ out.res.status = 409
           /\ out.res.body.ticket = currentServing[k]
           /\ Untouched(out)

\* A station is serving one ticket while another one waits there.
C6_Witness ==
    \E k \in StepKeys :
        /\ ~Falsy(currentServing[k])
        /\ queues[k] # <<>>
        /\ StartNextHandler(k).res.status = 409

\* C7: check-in without a name or without a program (absent or empty)
\* answers 400 and creates no record, consumes no ticket id and changes
\* neither the first station's queue nor the audit log.
C7_CheckInValidation ==
    \A name \in NameInputs, program \in ProgramInputs :
        (name \in {Undefined, ""} \/ program \in {Undefined, ""})
        => LET out == CheckInHandler(name, program) IN
           /\ out.res.status = 400
           /\ out.students = students
           /\ out.seq = seq
           /\ out.queues = queues
           /\ out.auditLogs = auditLogs

\* Students are on record and waiting when a check-in without a program is refused.
C7_Witness ==
    /\ queues[steps[1].key] # <<>>
    /\ seq > SeqStart
    /\ CheckInHandler("Jane", Undefined).res.status = 400

\* C8: every successful check-in allocates a ticket id that no earlier
\* check-in was given (the first is "A1001"), creates a record with that ticket
\* in status queued at registration, appends the ticket at the tail of the
\* registration queue and leaves every other station's queue, every serving
\* slot and every hold set unchanged.
C8_CheckInAllocates ==
    \A name \in NameInputs, program \in ProgramInputs :
        LET out == CheckInHandler(name, program)
            reg == steps[1].key
        IN  out.res.status = 200
            => LET t == out.res.body.ticket IN
               /\ t \notin DOMAIN students
               /\ \A i \in 1..Len(auditLogs) : auditLogs[i].ticket # t
               /\ (seq = SeqStart => t = "A1001")
               /\ DOMAIN out.students = DOMAIN students \cup {t}
               /\ out.students[t].ticket = t
               /\ out.students[t].status = "queued"
               /\ out.students[t].stepKey = "registration"
               /\ out.queues[reg] = Append(queues[reg], t)
               /\ \A k \in StepKeys \ {reg} : out.queues[k] = queues[k]
               /\ out.currentServing = currentServing
               /\ out.holds = holds

\* A1002 checked in behind nobody while A1001, checked in before, is served.
C8_Witness ==
    /\ currentServing[steps[1].key] = "A1001"
    /\ queues[steps[1].key] = <<"A1002">>
    /\ students["A1002"].status = "queued"
    /\ LastLog.event = "checkin"
    /\ LastLog.ticket = "A1002"

\* This holds of the outcome of every call with every input.
EveryCall(P(_)) ==
    /\ \A name \in NameInputs, program \in ProgramInputs : P(CheckInHandler(name, program))
    /\ \A k \in StepInputs : P(StartNextHandler(k))
    /\ \A k \in StepInputs, note \in CompleteNotes : P(CompleteHandler(k, note))
    /\ \A k \in StepInputs : P(HoldHandler(k))
    /\ \A k \in StepInputs, ticket \in TicketInputs : P(ReturnHandler(k, ticket))
    /\ \A k \in StepInputs : P(SkipHandler(k))
    /\ \A k \in StepInputs, text \in TextInputs, ticket \in OptTicketInputs :
            P(NoteHandler(k, text, ticket))
    /\ \A k \in StepInputs, ticket \in OptTicketInputs, data \in DataInputs :
            P(FormHandler(k, ticket, data))

\* A ticket held now keeps its stepKey, and stays held where it is unless it is returned.
C9_HeldStays(out) ==
    \A k \in StepKeys, t \in DOMAIN students :
        t \in holds[k]
        => /\ out.students[t].stepKey = students[t].stepKey
           /\ \/ t \in out.holds[k] /\ out.students[t].status = "hold"
              \/ out = ReturnHandler(k, t)

\* C9: hold on a station serving T moves T from the serving slot into that
\* station's hold set with status hold and into no waiting queue; return of a
\* held T at that station removes T from the hold set, appends it at the tail
\* of the same station's queue and sets its status to queued; T's stepKey is
\* the same before and after the hold, under every call made while T is held,
\* and after the return.
C9_HoldThenReturn ==
    /\ \A k \in StepKeys, t \in DOMAIN students :
          currentServing[k] = t
          => LET out == HoldHandler(k) IN
             /\ out.res.status = 200
             /\ out.currentServing[k] = Null
             /\ out.holds[k] = holds[k] \cup {t}
             /\ out.students[t].status = "hold"
             /\ out.students[t].stepKey = students[t].stepKey
             /\ out.queues = queues
             /\ \A j \in StepKeys : t \notin SeqToSet(out.queues[j])
    /\ \A k \in StepKeys, t \in DOMAIN students :
          t \in holds[k]
          => LET out == ReturnHandler(k, t) IN
             /\ out.res.status = 200
             /\ students[t].stepKey = k
             /\ out.holds[k] = holds[k] \ {t}
             /\ out.queues[k] = Append(queues[k], t)
             /\ \A j \in StepKeys \ {k} : out.queues[j] = queues[j]
             /\ out.students[t].status = "queued"
             /\ out.students[t].stepKey = students[t].stepKey
    /\ EveryCall(C9_HeldStays)

\* A1001 was held, A1002 was served and skipped, and A1001 was returned behind it.
C9_Witness ==
    /\ queues[steps[1].key] = <<"A1002", "A1001">>
    /\ holds[steps[1].key] = {}
    /\ students["A1001"].status = "queued"
    /\ LastLog.event = "return"
    /\ LastLog.ticket = "A1001"

\* A call that answers 200 added exactly one entry, carrying this event,
\* station and ticket, and any other call added none.
C10_LogsOne(out, event, k, t) ==
    IF out.res.status = 200
    THEN LogGrowsBy(out, 1) /\ LoggedAt(out, 1, event, k, t)
    ELSE out.auditLogs = auditLogs

\* The audit log under every call but complete.
C10_OtherCalls ==
    /\ \A name \in NameInputs, program \in ProgramInputs :
          LET out == CheckInHandler(name, program) IN
          C10_LogsOne(out, "checkin", steps[1].key,
                      IF out.res.status = 200 THEN out.res.body.ticket ELSE Null)
    /\ \A k \in StepInputs :
          LET out == StartNextHandler(k) IN
          IF out.res.status = 200 /\ out.res.body.ticket # Null
          THEN C10_LogsOne(out, "start", k, out.res.body.ticket)
          ELSE out.auditLogs = auditLogs
    /\ \A k \in StepInputs :
          C10_LogsOne(HoldHandler(k), "hold", k, MapGet(currentServing, k))
    /\ \A k \in StepInputs, ticket \in TicketInputs :
          C10_LogsOne(ReturnHandler(k, ticket), "return", k, ticket)
    /\ \A k \in StepInputs :
          C10_LogsOne(SkipHandler(k), "skip", k, MapGet(currentServing, k))
    /\ \A k \in StepInputs, text \in TextInputs, ticket \in OptTicketInputs :
          C10_LogsOne(NoteHandler(k, text, ticket), "note_add", k, Target(k, ticket))
    /\ \A k \in StepInputs, ticket \in OptTicketInputs, data \in DataInputs :
          C10_LogsOne(FormHandler(k, ticket, data), "form_save", k, Target(k, ticket))

\* C10 as stated: every successful mutating call, complete at the last station
\* included, adds exactly one audit log entry carrying the event kind, station
\* and ticket of the call, and rejected calls add none.
C10_OneEntryPerCall ==
    /\ C10_OtherCalls
    /\ \A k \in StepInputs, note \in CompleteNotes :
          C10_LogsOne(CompleteHandler(k, note), "complete", k, MapGet(currentServing, k))

\* C10 amended: every successful mutating call adds exactly one audit log
\* entry carrying the event kind, station and ticket of the call, except
\* complete at the last station, which adds two: a "complete" entry followed
\* by a "finalize" entry for the same station and ticket; rejected calls add none.
C10_OneEntryButLastComplete ==
    /\ C10_OtherCalls
    /\ \A k \in StepInputs, note \in CompleteNotes :
          LET out == CompleteHandler(k, note)
              t == MapGet(currentServing, k)
          IN  IF out.res.status = 200 /\ k = LastStep
              THEN /\ LogGrowsBy(out, 2)
                   /\ LoggedAt(out, 1, "complete", k, t)
                   /\ LoggedAt(out, 2, "finalize", k, t)
              ELSE C10_LogsOne(out, "complete", k, t)

\* A ticket that was held on its way completed the last station: the log ends
\* with its complete and finalize entries.
C10_Witness ==
    /\ Len(auditLogs) >= 3
    /\ LET n == Len(auditLogs) IN
       /\ auditLogs[n].event = "finalize"
       /\ auditLogs[n - 1].event = "complete"
       /\ auditLogs[n - 1].stepKey = LastStep
       /\ auditLogs[n - 1].ticket = auditLogs[n].ticket
       /\ \E i \in 1..(n - 2) : auditLogs[i].event = "hold"

----------------------------------------------------------------------------
\* C11 as stated: return for a station key and a ticket that is not in that
\* station's hold set (the station key itself may be unknown) is answered 404
\* and leaves queues, serving slots, hold sets, student records and the audit
\* log unchanged.
C11_ReturnNotFound ==
    \A k \in StepInputs, t \in TicketInputs :
        (k \notin StepKeys \/ t \notin holds[k])
        => LET out == ReturnHandler(k, t) IN
           /\ out.res.status = 404
           /\ Untouched(out)

\* What the handler does keep of C11: for a known station every ticket outside
\* its hold set is answered 404, and for an unknown station the call fails
\* with 500; in both cases nothing changes.
C11_ReturnRefused ==
    \A k \in StepInputs, t \in TicketInputs :
        (k \notin StepKeys \/ t \notin holds[k])
        => LET out == ReturnHandler(k, t) IN
           /\ out.res.status = IF k \in StepKeys THEN 404 ELSE 500
           /\ Untouched(out)

\* A ticket is held at registration while another one waits there: return of
\* the waiting one, and return of the held one at another station, are refused.
C11_Witness ==
    \E t \in DOMAIN students, u \in DOMAIN students :
        /\ t \in holds[steps[1].key]
        /\ u \in SeqToSet(queues[steps[1].key])
        /\ ReturnHandler(steps[1].key, u).res.status = 404
        /\ ReturnHandler(steps[2].key, t).res.status = 404

----------------------------------------------------------------------------
\* The events of one kind among those a handler emitted.
EventsOf(out, kind) == {i \in 1..Len(out.emitted) : out.emitted[i].event = kind}

\* The handler sent every listener exactly one state:update, carrying the
\* public snapshot of the state it left.
C12_OneSnapshot(out) ==
    /\ Cardinality(EventsOf(out, "state:update")) = 1
    /\ \A i \in EventsOf(out, "state:update") :
          /\ out.emitted[i].to = "all"
          /\ out.emitted[i].payload =
                publicStateOf(out.queues, out.currentServing, out.holds)

\* The handler sent no state:update.
C12_NoSnapshot(out) == EventsOf(out, "state:update") = {}

\* The students whose record the handler created or changed.
ChangedStudents(out) ==
    {t \in DOMAIN out.students : t \notin DOMAIN students \/ out.students[t] # students[t]}

\* For every student the handler changed it sent every listener exactly one
\* student:update, carrying the record as the handler left it, and no other.
C12_StudentsSent(out) ==
    /\ Cardinality(EventsOf(out, "student:update")) = Cardinality(ChangedStudents(out))
    /\ \A t \in ChangedStudents(out) :
          \E i \in EventsOf(out, "student:update") :
              /\ out.emitted[i].to = "all"
              /\ out.emitted[i].payload = out.students[t]

\* What a successful note or form save must emit is given by P; every other
\* successful call emits one snapshot and the record of the student it changed,
\* and a new connection is sent the current snapshot.
C12_Emits(P(_)) ==
    /\ \A name \in NameInputs, program \in ProgramInputs :
          LET out == CheckInHandler(name, program) IN
          out.res.status = 200 => C12_OneSnapshot(out) /\ C12_StudentsSent(out)
    /\ \A k \in StepInputs :
          LET out == StartNextHandler(k) IN
          out.res.status = 200 => C12_OneSnapshot(out) /\ C12_StudentsSent(out)
    /\ \A k \in StepInputs, note \in CompleteNotes :
          LET out == CompleteHandler(k, note) IN
          out.res.status = 200 => C12_OneSnapshot(out) /\ C12_StudentsSent(out)
    /\ \A k \in StepInputs :
          LET out == HoldHandler(k) IN
          out.res.status = 200 => C12_OneSnapshot(out) /\ C12_StudentsSent(out)
    /\ \A k \in StepInputs, ticket \in TicketInputs :
          LET out == ReturnHandler(k, ticket) IN
          out.res.status = 200 => C12_OneSnapshot(out) /\ C12_StudentsSent(out)
    /\ \A k \in StepInputs :
          LET out == SkipHandler(k) IN
          out.res.status = 200 => C12_OneSnapshot(out) /\ C12_StudentsSent(out)
    /\ \A k \in StepInputs, text \in TextInputs, ticket \in OptTicketInputs :
          LET out == NoteHandler(k, text, ticket) IN
          out.res.status = 200 => P(out) /\ C12_StudentsSent(out)
    /\ \A k \in StepInputs, ticket \in OptTicketInputs, data \in DataInputs :
          LET out == FormHandler(k, ticket, data) IN
          out.res.status = 200 => P(out) /\ C12_StudentsSent(out)
    /\ OnConnection.emitted =
          <<[event |-> "state:update", to |-> "socket", payload |-> publicState]>>

\* C12 as stated: every successful check-in, start-next, complete, hold,
\* return, skip, note and form save emits to all listeners one event carrying
\* the public snapshot taken after the change, and one event carrying the
\* record of the student it changed; a new listener is sent the current snapshot.
C12_EveryMutationBroadcasts == C12_Emits(C12_OneSnapshot)

\* C12 amended: every successful check-in, start-next, complete, hold, return
\* and skip emits to all listeners one event carrying the public snapshot taken
\* after the change; a successful note or form save emits no snapshot; every
\* successful call emits one event carrying the record of the student it
\* changed; a new listener is sent the current snapshot.
C12_QueueMutationsBroadcast == C12_Emits(C12_NoSnapshot)

\* A form was saved for the ticket being served.
C12_Witness ==
    /\ auditLogs # <<>>
    /\ LastLog.event = "form_save"
    /\ \E k \in StepKeys : currentServing[k] = LastLog.ticket

----------------------------------------------------------------------------
\* No ticket is in the serving slot of the station named k, which may name no station.
NoneServing(k) == k \notin StepKeys \/ currentServing[k] = Null

\* The handler answered 409 and changed nothing.
Conflict(out) ==
    /\ out.res.status = 409
    /\ Untouched(out)
    /\ out.seq = seq

\* C13: complete, hold and skip on a station with no ticket in its serving
\* slot, an unknown station key included, are each answered 409 and leave
\* queues, serving slots, hold sets, student records and the audit log unchanged.
C13_NothingServingConflict ==
    \A k \in StepInputs :
        NoneServing(k)
        => /\ \A note \in CompleteNotes : Conflict(CompleteHandler(k, note))
           /\ Conflict(HoldHandler(k))
           /\ Conflict(SkipHandler(k))

\* A station serves nobody while one ticket waits there and another is held
\* there, and complete, hold and skip on it are refused.
C13_Witness ==
    \E k \in StepKeys :
        /\ currentServing[k] = Null
        /\ queues[k] # <<>>
        /\ holds[k] # {}
        /\ CompleteHandler(k, UndefinedText).res.status = 409
        /\ HoldHandler(k).res.status = 409
        /\ SkipHandler(k).res.status = 409

----------------------------------------------------------------------------
\* Skip on a station serving T: the slot is cleared, T is appended at the tail
\* of the same queue with status queued, and T's stepKey, the hold set and
\* every other station's queue, slot and hold set are as before.
C14_SkipEffect ==
    \A k \in StepKeys, t \in DOMAIN students :
        currentServing[k] = t
        => LET out == SkipHandler(k) IN
           /\ out.res.status = 200
           /\ out.currentServing[k] = Null
           /\ out.queues[k] = Append(queues[k], t)
           /\ out.students[t].status = "queued"
           /\ out.students[t].stepKey = students[t].stepKey
           /\ out.holds = holds
           /\ \A j \in StepKeys \ {k} :
                 /\ out.queues[j] = queues[j]
                 /\ out.currentServing[j] = currentServing[j]

\* Start-next right after a skip of T at the same station: the queue ends with
\* T, and the ticket served is the head of what waited before the skip, or T
\* itself if nothing did.
C14_StartNextAfterSkip ==
    \A k \in StepKeys :
        (auditLogs # <<>> /\ LastLog.event = "skip" /\ LastLog.stepKey = k /\ StartNext(k))
        => LET t == LastLog.ticket
               before == SubSeq(queues[k], 1, Len(queues[k]) - 1)
           IN  /\ queues[k] = Append(before, t)
               /\ currentServing'[k] = IF before = <<>> THEN t ELSE Head(before)

\* C14: skip on a station serving T clears the serving slot, appends T at the
\* tail of the same station's queue, sets its status to queued and leaves its
\* stepKey, the hold set and every other station unchanged; a following
\* start-next serves the previous head of the queue, or T if the queue was empty.
C14_SkipToTail == [](C14_SkipEffect) /\ [][C14_StartNextAfterSkip]_vars

\* A1001 was skipped behind the waiting A1002 and A1002 is now served
\* ahead of it: start-next after the skip took the previous head.
C14_Witness ==
    /\ Len(auditLogs) >= 2
    /\ auditLogs[Len(auditLogs) - 1].event = "skip"
    /\ auditLogs[Len(auditLogs) - 1].ticket = "A1001"
    /\ LastLog.event = "start"
    /\ LastLog.ticket = "A1002"
    /\ queues[steps[1].key] = <<"A1001">>

----------------------------------------------------------------------------
\* C15: start-next on a known station whose serving slot is empty answers 200.
\* With an empty waiting queue the ticket is null and queues, serving slots,
\* hold sets, student records and the audit log are unchanged; with a non-empty
\* queue exactly the head is removed and becomes the serving ticket with status
\* serving, and the remaining tickets keep their order.
C15_StartNextServesHead ==
    \A k \in StepKeys :
        currentServing[k] = Null
        => LET out == StartNextHandler(k) IN
           IF queues[k] = <<>>
           THEN /\ out.res.status = 200
                /\ out.res.body.ticket = Null
                /\ Untouched(out)
           ELSE LET t == Head(queues[k]) IN
                /\ out.res.status = 200
                /\ out.res.body.ticket = t
                /\ out.currentServing[k] = t
                /\ out.students[t].status = "serving"
                /\ out.students[t].stepKey = k
                /\ out.queues[k] = Tail(queues[k])
                /\ \A j \in StepKeys \ {k} :
                      /\ out.queues[j] = queues[j]
                      /\ out.currentServing[j] = currentServing[j]
                /\ out.holds = holds

\* Start-next took A1001 from the head and left A1002 waiting, and at the next
\* station, where nobody waits, start-next answers with no ticket.
C15_Witness ==
    /\ currentServing[steps[1].key] = "A1001"
    /\ students["A1001"].status = "serving"
    /\ queues[steps[1].key] = <<"A1002">>
    /\ LastLog.event = "start"
    /\ StartNextHandler(steps[2].key).res.body.ticket = Null

----------------------------------------------------------------------------
\* A note text that is absent, empty or blank.
EmptyText(text) == text = UndefinedText \/ \A i \in 1..Len(text) : text[i] = " "

\* The handler failed with this status and changed nothing.
Refused(out, status) ==
    /\ out.res.status = status
    /\ Untouched(out)
    /\ out.seq = seq

\* C16: a successful note call, for the explicit ticket or else the station's
\* serving ticket, appends one note to that student's notes and changes
\* nothing else of the student, no other student, no waiting queue, no serving
\* slot and no hold set, wherever the ticket is; empty text fails with 400, no
\* resolvable ticket with 409, an unknown ticket with 404, each changing nothing.
C16_NoteOnlyAddsNote ==
    \A k \in StepInputs, text \in TextInputs \cup {UndefinedText},
       ticket \in OptTicketInputs :
        LET out == NoteHandler(k, text, ticket)
            t == Target(k, ticket)
        IN  IF EmptyText(text) THEN Refused(out, 400)
            ELSE IF t \in {Null, Undefined} THEN Refused(out, 409)
            ELSE IF t \notin DOMAIN students THEN Refused(out, 404)
            ELSE /\ out.res.status = 200
                 /\ Len(out.students[t].notes) = Len(students[t].notes) + 1
                 /\ SubSeq(out.students[t].notes, 1, Len(students[t].notes))
                        = students[t].notes
                 /\ out.students[t].notes[Len(out.students[t].notes)].stepKey = k
                 /\ [out.students[t] EXCEPT !.notes = students[t].notes] = students[t]
                 /\ DOMAIN out.students = DOMAIN students
                 /\ \A u \in DOMAIN students \ {t} : out.students[u] = students[u]
                 /\ out.queues = queues
                 /\ out.currentServing = currentServing
                 /\ out.holds = holds

\* A note naming the last station was added for a ticket that waits at an
\* earlier one.
C16_Witness ==
    /\ auditLogs # <<>>
    /\ LastLog.event = "note_add"
    /\ LastLog.stepKey = LastStep
    /\ students[LastLog.ticket].status = "queued"
    /\ students[LastLog.ticket].stepKey # LastStep
    /\ Len(students[LastLog.ticket].notes) = 1

----------------------------------------------------------------------------
\* The set of student records only grows, and every record keeps its ticket id.
RecordsOnlyGrow ==
    /\ DOMAIN students \subseteq DOMAIN students'
    /\ \A t \in DOMAIN students' : students'[t].ticket = t

\* C17 as stated: across every step the audit log before the step is a prefix
\* of the log after it (no entry is removed, reordered or altered), no student
\* record is deleted and no record's ticket id changes.
C17_AppendOnly ==
    [][/\ Len(auditLogs') >= Len(auditLogs)
       /\ SubSeq(auditLogs', 1, Len(auditLogs)) = auditLogs
       /\ RecordsOnlyGrow
      ]_vars

\* An entry without the history, notes and forms of a final snapshot.
WithoutArrays(entry) ==
    IF entry.event = "finalize"
    THEN [entry EXCEPT !.meta = [ticket  |-> @.ticket,
                                 name    |-> @.name,
                                 program |-> @.program,
                                 stepKey |-> @.stepKey,
                                 status  |-> @.status]]
    ELSE entry

\* What the handlers do keep of C17: no entry is removed or reordered, and
\* nothing of an entry is altered but the history, notes and forms inside the
\* snapshot of a "finalize" entry; the records only grow.
C17_AppendOnlyButSnapshots ==
    [][/\ Len(auditLogs') >= Len(auditLogs)
       /\ \A i \in 1..Len(auditLogs) :
             WithoutArrays(auditLogs'[i]) = WithoutArrays(auditLogs[i])
       /\ RecordsOnlyGrow
      ]_vars

\* A note was added for a ticket after it completed the pipeline, and the
\* snapshot in its "finalize" entry reads with that note.
C17_Witness ==
    /\ Len(auditLogs) >= 2
    /\ LastLog.event = "note_add"
    /\ auditLogs[Len(auditLogs) - 1].event = "finalize"
    /\ auditLogs[Len(auditLogs) - 1].ticket = LastLog.ticket
    /\ auditLogs[Len(auditLogs) - 1].meta.notes # <<>>

----------------------------------------------------------------------------
\* How often the history of a ticket records a complete at a station.
CompletedAt(t, k) ==
    Cardinality({i \in 1..Len(students[t].history) :
                    /\ students[t].history[i].action = "complete"
                    /\ students[t].history[i].stepKey = k})

\* A step leaves the stepKey of every student alone, unless it is the complete
\* of the station that serves the student and is not the last one: then the
\* stepKey becomes the immediate successor.
C18_StepKeyOnlyAdvances ==
    \A t \in DOMAIN students :
        \/ students'[t].stepKey = students[t].stepKey
        \/ \E i \in 1..(Len(steps) - 1) :
              /\ students[t].stepKey = steps[i].key
              /\ currentServing[steps[i].key] = t
              /\ \E note \in CompleteNotes : Complete(steps[i].key, note)
              /\ students'[t].stepKey = steps[i + 1].key

\* A ticket at station k, served or not, has completed each earlier station
\* exactly once and no other station, but the last one once it is complete.
C18_CompletedInOrder ==
    \A t \in DOMAIN students :
        /\ students[t].stepKey \in StepKeys
        /\ \A j \in 1..Len(steps) :
              CompletedAt(t, steps[j].key) =
                  IF \/ j < stepIndexByKey[students[t].stepKey]
                     \/ students[t].status = "complete"
                  THEN 1 ELSE 0

\* C18: every operation leaves a student's stepKey unchanged except complete
\* at the student's current non-last station, which advances it to the
\* immediate successor; so a ticket is served at a station only after exactly
\* one complete at each earlier station, and no station is completed twice.
C18_PipelineOrder == [](C18_CompletedInOrder) /\ [][C18_StepKeyOnlyAdvances]_vars

\* A ticket that was skipped once on its way is served at the last station.
C18_Witness ==
    \E t \in DOMAIN students :
        /\ currentServing[LastStep] = t
        /\ students[t].status = "serving"
        /\ \E i \in 1..Len(students[t].history) : students[t].history[i].action = "skip"
        /\ \A j \in 1..(Len(steps) - 1) : CompletedAt(t, steps[j].key) = 1

----------------------------------------------------------------------------
\* C19: after every operation, successful or rejected, the public snapshot
\* last broadcast on state:update (before any broadcast, the initial empty
\* state) equals the current public state: the same waiting queues in the same
\* order, the same serving ticket and the same hold count per station.
C19_LastBroadcastIsCurrent ==
    /\ lastState = publicState
    /\ \A k \in StepKeys :
          /\ lastState.queues[k] = queues[k]
          /\ lastState.currentServing[k] = currentServing[k]
          /\ lastState.holdsCount[k] = Cardinality(holds[k])

\* A ticket was put on hold and a note, which broadcasts no snapshot, was
\* added afterwards: listeners hold the hold count of the hold's broadcast.
C19_Witness ==
    /\ auditLogs # <<>>
    /\ LastLog.event = "note_add"
    /\ \E k \in StepKeys : holds[k] # {} /\ lastState.holdsCount[k] = 1

----------------------------------------------------------------------------
\* Every waiting queue and every serving slot is empty.
AllServed == \A k \in StepKeys : queues[k] = <<>> /\ currentServing[k] = Null

\* Every ticket on record is complete, and nobody waits or is served.
AllComplete ==
    /\ \A t \in DOMAIN students : students[t].status = "complete"
    /\ AllServed

\* C20: with finitely many check-ins, no hold and no skip, and start-next and
\* complete weakly fair at every station, every checked-in ticket eventually
\* has status complete and the system eventually has all waiting queues and
\* serving slots empty: from every state in which some ticket on record is not
\* complete, or waits, or is served, a state is reached in which every ticket
\* on record is complete and every queue and slot is empty.
C20_EveryTicketCompletes == (~AllComplete) ~> AllComplete

\* Every student is complete, and the second one had caught up with the first:
\* it entered the queue of the last station before the first one left that station.
C20_Witness ==
    /\ Cardinality(DOMAIN students) = FlowTickets
    /\ AllComplete
    /\ \E i \in 1..Len(auditLogs), j \in 1..Len(auditLogs) :
          /\ i < j
          /\ auditLogs[i].event = "complete"
          /\ auditLogs[i].ticket = "A1002"
          /\ nextStepKey(auditLogs[i].stepKey) = LastStep
          /\ auditLogs[j].event = "complete"
          /\ auditLogs[j].ticket = "A1001"
          /\ auditLogs[j].stepKey = LastStep

====
